---- MODULE Spec2Model ----
(***************************************************************************)
(* Model of binance_future_filter.py: a Streamlit script that is re-run    *)
(* from top to bottom on every user interaction.  One rerun is modelled as *)
(* a sequence of steps (pc) over the script's local names; the state that  *)
(* survives a rerun is st.session_state (symbols_cache, candle_cache,      *)
(* filtered_df) and the two st.cache_data stores.                          *)
(***************************************************************************)
EXTENDS Integers, Sequences, FiniteSets, TLC

VARIABLES
    now,            \* wall clock, seconds
    meta_cache,     \* st.cache_data store of fetch_exchange_symbols
    ticker_cache,   \* st.cache_data store of fetch_all_tickers_24h
    symbols_cache,  \* st.session_state["symbols_cache"]
    symbols_at,     \* time at which the content of symbols_cache left the exchange
    candle_cache,   \* st.session_state["candle_cache"]
    filtered_df,    \* st.session_state["filtered_df"] (absent until first stored)
    pc,             \* position of the running script
    refresh,        \* st.sidebar.button value of this rerun
    auto_refresh,   \* st.sidebar.checkbox value of this rerun
    max_symbols,    \* st.sidebar.number_input value of this rerun
    symbol_list,    \* local: candidate symbols of the cycle
    tick_map,       \* local: symbol -> ticker record
    rows,           \* local: accumulated rows
    i,              \* local: loop position in symbol_list (1-based)
    dfk,            \* local: result of get_klines_cached in the chart block
    err,            \* exception that ended the rerun, "none" otherwise
    calls,          \* network requests issued by the current rerun, per endpoint
    df_before,      \* filtered_df as it was when the current rerun started
    net_failed,     \* endpoint whose bulk fetch failed in the current rerun, "none" otherwise
    klines_args,    \* arguments of the latest get_klines_cached call
    lookups,        \* first-candle lookups of the current rerun: symbol and outcome
    fetched         \* per (symbol, interval): the series of its first successful fetch

vars == <<now, meta_cache, ticker_cache, symbols_cache, symbols_at, candle_cache,
          filtered_df, pc, refresh, auto_refresh, max_symbols, symbol_list,
          tick_map, rows, i, dfk, err, calls, df_before, net_failed,
          klines_args, lookups, fetched>>

----------------------------------------------------------------------------
(* Bounds of the model *)
MaxTime == 300
TimeStep == 150
MaxN == 3

(* Program constants *)
MetaTtl == 300
TickerTtl == 12
DefaultLimit == 500
MinSymbols == 1

----------------------------------------------------------------------------
(* Python None / missing key, and a present value *)
None == <<>>
Some(v) == <<v>>

INTERVAL_MAP ==
    [l \in {"M1", "M15", "M30", "H1", "H4", "D1", "W1"} |->
        CASE l = "M1" -> "1m" [] l = "M15" -> "15m" [] l = "M30" -> "30m"
          [] l = "H1" -> "1h" [] l = "H4" -> "4h" [] l = "D1" -> "1d"
          [] l = "W1" -> "1w"]

Min(a, b) == IF a < b THEN a ELSE b

----------------------------------------------------------------------------
(* What the exchange can answer.  A reply is an exception raised by        *)
(* requests.get (timeout, connection error) or an HTTP response.           *)
Raised == [kind |-> "exception", status |-> 0, body |-> <<>>]
Http(status, body) == [kind |-> "http", status |-> status, body |-> body]

Contract(sym, quote, ctype, status) ==
    [symbol |-> sym, quoteAsset |-> quote, contractType |-> ctype, status |-> status]
Perp(sym) == Contract(sym, "USDT", "PERPETUAL", "TRADING")

ExchangeInfoBodies ==
    { << Perp("CCC"), Perp("BBB"), Perp("AAA") >>,
      << Contract("DDD", "BUSD", "PERPETUAL", "TRADING"),
         Perp("AAA"),
         Contract("EEE", "USDT", "CURRENT_QUARTER", "TRADING"),
         Contract("CCC", "USDT", "PERPETUAL", "SETTLING") >> }

ExchangeInfoReplies ==
    {Raised, Http(503, <<>>)} \cup {Http(200, b) : b \in ExchangeInfoBodies}

(* A decimal on the wire ("-5.00", "-0.00", "2.00"): sign and magnitude;   *)
(* Junk is a field that is not a number.                                   *)
Wire(neg, mag) == [numeric |-> TRUE, neg |-> neg, mag |-> mag]
Junk == [numeric |-> FALSE, neg |-> FALSE, mag |-> 0]
Ticker(sym, pct, price, vol) ==
    [symbol |-> sym, priceChangePercent |-> pct, lastPrice |-> price, quoteVolume |-> vol]

TickerBodies ==
    { \* AAA -5, BBB +2, CCC -1
      << Ticker("AAA", Wire(TRUE, 5), Wire(FALSE, 10), Wire(FALSE, 7)),
         Ticker("BBB", Wire(FALSE, 2), Wire(FALSE, 20), Wire(FALSE, 8)),
         Ticker("CCC", Wire(TRUE, 1), Wire(FALSE, 30), Wire(FALSE, 9)) >>,
      \* nothing below zero: AAA 0, CCC -0, BBB +1
      << Ticker("AAA", Wire(FALSE, 0), Wire(FALSE, 10), Wire(FALSE, 7)),
         Ticker("CCC", Wire(TRUE, 0), Wire(FALSE, 30), Wire(FALSE, 9)),
         Ticker("BBB", Wire(FALSE, 1), Wire(FALSE, 20), Wire(FALSE, 8)) >>,
      \* a tie, and BBB without a record
      << Ticker("CCC", Wire(TRUE, 3), Wire(FALSE, 30), Wire(FALSE, 9)),
         Ticker("AAA", Wire(TRUE, 3), Wire(FALSE, 10), Wire(FALSE, 7)) >> }

TickerReplies ==
    {Raised, Http(503, <<>>)} \cup {Http(200, b) : b \in TickerBodies}

(* First-candle lookup: only element [0][0] (openTime) of the body is read. *)
(* The millisecond timestamp is kept as seconds plus a millisecond rest.    *)
Stamp(sec, ms) == [sec |-> sec, ms |-> ms]
ListingReplies ==
    { Raised,
      Http(429, <<>>),
      Http(200, <<>>),
      Http(200, << <<Stamp(1567900800, 0)>> >>) }

(* Candle rows as sent by /fapi/v1/klines, reduced to the columns the       *)
(* script converts.  The exchange holds two candles per symbol and         *)
(* interval and returns the latest `limit` of them.                        *)
Kline(ot, o, h, l, c, v, ct) ==
    [openTime |-> ot, open |-> o, high |-> h, low |-> l, close |-> c,
     volume |-> v, closeTime |-> ct]

IntervalSeconds(interval) ==
    CASE interval = "1m" -> 60 [] interval = "15m" -> 900 [] interval = "30m" -> 1800
      [] interval = "1h" -> 3600 [] interval = "4h" -> 14400 [] interval = "1d" -> 86400
      [] interval = "1w" -> 604800

BasePrice(symbol) ==
    CASE symbol = "AAA" -> 10 [] symbol = "BBB" -> 20 [] symbol = "CCC" -> 30
      [] OTHER -> 40

KlineHistory(symbol, interval) ==
    LET len == IntervalSeconds(interval)
        t0 == 1699488000
        p == BasePrice(symbol)
    IN << Kline(Stamp(t0, 0), Wire(FALSE, p), Wire(FALSE, p + 2), Wire(FALSE, p - 1),
                Wire(FALSE, p + 1), Wire(FALSE, 5), Stamp(t0 + len - 1, 999)),
          Kline(Stamp(t0 + len, 0), Wire(FALSE, p + 1), Wire(FALSE, p + 3), Wire(FALSE, p),
                Wire(FALSE, p + 2), Junk, Stamp(t0 + 2 * len - 1, 999)) >>

LastN(s, n) == IF Len(s) <= n THEN s ELSE SubSeq(s, Len(s) - n + 1, Len(s))

KlineReplies(symbol, interval, limit) ==
    {Raised, Http(400, <<>>), Http(200, LastN(KlineHistory(symbol, interval), limit))}

----------------------------------------------------------------------------
(* Pure pieces of the script *)

\* float(): "-0.00" parses to -0.0, which compares equal to 0
Float(w) == IF w.neg THEN 0 - w.mag ELSE w.mag

\* pd.to_numeric(errors="coerce")
ToNumeric(w) == IF w.numeric THEN [nan |-> FALSE, val |-> Float(w)]
                ELSE [nan |-> TRUE, val |-> 0]

\* variant: raise_for_status() left out
RaisesWithoutStatusCheck(reply) == reply.kind = "exception"

\* requests: an exception from get(), or raise_for_status() on 4xx/5xx
Raises(reply) == reply.kind = "exception" \/ reply.status >= 400

IsUsdtPerpetualTrading(s) ==
    /\ s.quoteAsset = "USDT"
    /\ s.contractType = "PERPETUAL"
    /\ s.status = "TRADING"

\* the list comprehension of fetch_exchange_symbols
ParseExchangeSymbols(body) == SelectSeq(body, IsUsdtPerpetualTrading)

\* st.cache_data(ttl=...): an entry is served while now < stored-at + ttl
CacheFresh(entry, ttl) == entry # None /\ now < entry[1].at + ttl

\* variant: every rerun reloads
NeedReloadAlways(r, a) == TRUE

NeedReload(r, a) == r \/ a

MustFetchSymbols(cache, r) == cache = None \/ r

\* variant: slice one too long
TakeFirstOffByOne(s, n) == SubSeq(s, 1, Min(n + 1, Len(s)))

\* seq[:n]
TakeFirst(s, n) == SubSeq(s, 1, Min(n, Len(s)))

SymbolList(info) == [k \in 1..Len(info) |-> info[k].symbol]

\* {t["symbol"]: t for t in tickers}: the last record of a symbol wins
TickMap(tickers) ==
    [s \in {tickers[k].symbol : k \in 1..Len(tickers)} |->
        tickers[CHOOSE k \in 1..Len(tickers) :
                    /\ tickers[k].symbol = s
                    /\ \A j \in (k+1)..Len(tickers) : tickers[j].symbol # s]]

\* variant: "if pct > 0: continue"
QualifiesUpToZero(pct) == ~(pct > 0)

Qualifies(pct) == ~(pct >= 0)

\* datetime.utcfromtimestamp(seconds): the civil date of a day number
CivilFromDays(days) ==
    LET z == days + 719468
        era == z \div 146097
        doe == z - era * 146097
        yoe == (doe - doe \div 1460 + doe \div 36524 - doe \div 146096) \div 365
        doy == doe - (365 * yoe + yoe \div 4 - yoe \div 100)
        mp == (5 * doy + 2) \div 153
        d == doy - (153 * mp + 2) \div 5 + 1
        m == IF mp < 10 THEN mp + 3 ELSE mp - 9
        y == yoe + era * 400 + (IF m <= 2 THEN 1 ELSE 0)
    IN [year |-> y, month |-> m, day |-> d]

UtcFromTimestamp(stamp) == CivilFromDays(stamp.sec \div 86400)

Pad2(n) == IF n < 10 THEN "0" \o ToString(n) ELSE ToString(n)

\* strftime("%d/%m/%Y")
Strftime(date) == Pad2(date.day) \o "/" \o Pad2(date.month) \o "/" \o ToString(date.year)

\* variant: "len(r.json()) > 1"
ListedDateNeedsTwo(reply) ==
    IF reply.kind = "exception" THEN "N/A"
    ELSE IF reply.status = 200 /\ Len(reply.body) > 1
         THEN Strftime(UtcFromTimestamp(reply.body[1][1]))
         ELSE "N/A"

\* the try/except around the first-candle lookup
ListedDate(reply) ==
    IF reply.kind = "exception" THEN "N/A"
    ELSE IF reply.status = 200 /\ Len(reply.body) > 0
         THEN Strftime(UtcFromTimestamp(reply.body[1][1]))
         ELSE "N/A"

\* the dict appended to rows
Row(sym, t, pct, listed) ==
    [symbol |-> sym, pct24h |-> pct, last_price |-> Float(t.lastPrice),
     volume |-> Float(t.quoteVolume), listed_date |-> listed]

\* pd.DataFrame(rows): the columns are the keys of the dicts, none when
\* there is no dict; the index is 0..n-1
DataFrame(rs) ==
    [columns |-> IF rs = <<>> THEN {}
                 ELSE {"symbol", "% 24h", "last_price", "volume (USDT)", "listed_date"},
     data |-> [k \in 1..Len(rs) |-> [index |-> k - 1, row |-> rs[k]]]]

Arrangements(n) == {f \in [1..n -> 1..n] : \A a, b \in 1..n : f[a] = f[b] => a = b}

\* variant: the rows are left in loop order
SortValuesUnsorted(df) == {df}

\* sort_values("% 24h"): the default sort is not stable, any ascending
\* arrangement of the rows may come out
SortValues(df) ==
    LET n == Len(df.data)
    IN { [columns |-> df.columns, data |-> [k \in 1..n |-> df.data[f[k]]]] :
            f \in {g \in Arrangements(n) :
                     \A k \in 1..(n-1) :
                        df.data[g[k]].row.pct24h <= df.data[g[k+1]].row.pct24h} }

\* reset_index(drop=True)
ResetIndex(df) ==
    [columns |-> df.columns,
     data |-> [k \in 1..Len(df.data) |-> [index |-> k - 1, row |-> df.data[k].row]]]

\* variant: f"{interval}"
CacheKeyIntervalOnly(symbol, interval) == interval

\* f"{symbol}_{interval}"
CacheKey(symbol, interval) == symbol \o "_" \o interval

\* pd.to_datetime(unit="ms")
ToDatetime(stamp) ==
    [day |-> stamp.sec \div 86400, second |-> stamp.sec % 86400, ms |-> stamp.ms]

\* the DataFrame built by get_klines_cached
ParseKlines(body) ==
    [k \in 1..Len(body) |->
        [openTime |-> ToDatetime(body[k].openTime),
         open |-> ToNumeric(body[k].open),
         high |-> ToNumeric(body[k].high),
         low |-> ToNumeric(body[k].low),
         close |-> ToNumeric(body[k].close),
         volume |-> ToNumeric(body[k].volume),
         closeTime |-> ToDatetime(body[k].closeTime)]]

----------------------------------------------------------------------------
(* State *)

NoCalls == [meta |-> 0, ticker |-> 0, listing |-> 0, klines |-> 0]
Called(endpoint) == [calls EXCEPT ![endpoint] = @ + 1]

ChartLabels == {"H1"}
ChartSymbols == {"AAA", "CCC"}
Limits == {1, DefaultLimit}

locals == <<refresh, auto_refresh, max_symbols, symbol_list, tick_map, rows, i, dfk,
            err, calls, df_before, net_failed, klines_args, lookups>>

LocalsCleared ==
    /\ refresh = FALSE /\ auto_refresh = FALSE /\ max_symbols = MinSymbols
    /\ symbol_list = <<>> /\ tick_map = <<>> /\ rows = <<>> /\ i = 1
    /\ dfk = None /\ err = "none" /\ calls = NoCalls /\ df_before = None
    /\ net_failed = "none" /\ klines_args = None /\ lookups = <<>>

ClearLocals ==
    /\ refresh' = FALSE /\ auto_refresh' = FALSE /\ max_symbols' = MinSymbols
    /\ symbol_list' = <<>> /\ tick_map' = <<>> /\ rows' = <<>> /\ i' = 1
    /\ dfk' = None /\ err' = "none" /\ calls' = NoCalls /\ df_before' = None
    /\ net_failed' = "none" /\ klines_args' = None /\ lookups' = <<>>

\* the session after the two "not in st.session_state" blocks
Init ==
    /\ now = 0
    /\ meta_cache = None
    /\ ticker_cache = None
    /\ symbols_cache = None
    /\ symbols_at = 0
    /\ candle_cache = <<>>
    /\ filtered_df = None
    /\ fetched = <<>>
    /\ pc = "idle"
    /\ LocalsCleared

----------------------------------------------------------------------------
(* One rerun of the script *)

\* widgets are read and need_reload is computed
BeginRun(r, a, n) ==
    /\ pc = "idle"
    /\ refresh' = r /\ auto_refresh' = a /\ max_symbols' = n
    /\ df_before' = filtered_df
    /\ pc' = IF NeedReload(r, a) THEN "symbols" ELSE "guard"
    /\ UNCHANGED <<now, meta_cache, ticker_cache, symbols_cache, symbols_at,
                   candle_cache, filtered_df, symbol_list, tick_map, rows, i, dfk,
                   err, calls, net_failed, klines_args, lookups, fetched>>

\* the symbols_cache guard, fetch_exchange_symbols() and the [:max_symbols] slice
LoadSymbols ==
    /\ pc = "symbols"
    /\ \/ /\ ~MustFetchSymbols(symbols_cache, refresh)
          /\ symbol_list' = SymbolList(TakeFirst(symbols_cache[1], max_symbols))
          /\ pc' = "tickers"
          /\ UNCHANGED <<meta_cache, symbols_cache, symbols_at, calls, err, net_failed>>
       \/ /\ MustFetchSymbols(symbols_cache, refresh)
          /\ CacheFresh(meta_cache, MetaTtl)
          /\ symbols_cache' = Some(meta_cache[1].value)
          /\ symbols_at' = meta_cache[1].at
          /\ symbol_list' = SymbolList(TakeFirst(meta_cache[1].value, max_symbols))
          /\ pc' = "tickers"
          /\ UNCHANGED <<meta_cache, calls, err, net_failed>>
       \/ /\ MustFetchSymbols(symbols_cache, refresh)
          /\ ~CacheFresh(meta_cache, MetaTtl)
          /\ calls' = Called("meta")
          /\ \E reply \in ExchangeInfoReplies :
                /\ net_failed' = IF reply.kind = "http" /\ reply.status = 200
                                 THEN "none" ELSE "metadata"
                /\ IF Raises(reply)
                   THEN /\ err' = IF reply.kind = "exception" THEN "RequestException"
                                  ELSE "HTTPError"
                        /\ pc' = "error"
                        /\ UNCHANGED <<meta_cache, symbols_cache, symbols_at, symbol_list>>
                   ELSE LET value == ParseExchangeSymbols(reply.body)
                        IN /\ meta_cache' = Some([value |-> value, at |-> now])
                           /\ symbols_cache' = Some(value)
                           /\ symbols_at' = now
                           /\ symbol_list' = SymbolList(TakeFirst(value, max_symbols))
                           /\ pc' = "tickers"
                           /\ err' = err
    /\ UNCHANGED <<now, ticker_cache, candle_cache, filtered_df, refresh, auto_refresh,
                   max_symbols, tick_map, rows, i, dfk, df_before, klines_args, lookups,
                   fetched>>

\* fetch_all_tickers_24h() and tick_map
LoadTickers ==
    /\ pc = "tickers"
    /\ \/ /\ CacheFresh(ticker_cache, TickerTtl)
          /\ tick_map' = TickMap(ticker_cache[1].value)
          /\ rows' = <<>> /\ i' = 1
          /\ pc' = "loop"
          /\ UNCHANGED <<ticker_cache, calls, err, net_failed>>
       \/ /\ ~CacheFresh(ticker_cache, TickerTtl)
          /\ calls' = Called("ticker")
          /\ \E reply \in TickerReplies :
                /\ net_failed' = IF reply.kind = "http" /\ reply.status = 200
                                 THEN "none" ELSE "ticker"
                /\ IF Raises(reply)
                   THEN /\ err' = IF reply.kind = "exception" THEN "RequestException"
                                  ELSE "HTTPError"
                        /\ pc' = "error"
                        /\ UNCHANGED <<ticker_cache, tick_map, rows, i>>
                   ELSE /\ ticker_cache' = Some([value |-> reply.body, at |-> now])
                        /\ tick_map' = TickMap(reply.body)
                        /\ rows' = <<>> /\ i' = 1
                        /\ pc' = "loop"
                        /\ err' = err
    /\ UNCHANGED <<now, meta_cache, symbols_cache, symbols_at, candle_cache, filtered_df,
                   refresh, auto_refresh, max_symbols, symbol_list, dfk, df_before,
                   klines_args, lookups, fetched>>

\* one iteration of the for loop over symbol_list
FilterStep ==
    /\ pc = "loop"
    /\ i <= Len(symbol_list)
    /\ i' = i + 1
    /\ LET sym == symbol_list[i]
       IN IF sym \notin DOMAIN tick_map
          THEN UNCHANGED <<rows, calls, lookups>>
          ELSE LET t == tick_map[sym]
                   pct == Float(t.priceChangePercent)
               IN IF ~Qualifies(pct)
                  THEN UNCHANGED <<rows, calls, lookups>>
                  ELSE /\ calls' = Called("listing")
                       /\ \E reply \in ListingReplies :
                             /\ rows' = Append(rows, Row(sym, t, pct, ListedDate(reply)))
                             /\ lookups' = Append(lookups,
                                    [symbol |-> sym,
                                     answered |-> /\ reply.kind = "http"
                                                  /\ reply.status = 200
                                                  /\ reply.body # <<>>])
    /\ UNCHANGED <<now, meta_cache, ticker_cache, symbols_cache, symbols_at, candle_cache,
                   filtered_df, pc, refresh, auto_refresh, max_symbols, symbol_list,
                   tick_map, dfk, err, df_before, net_failed, klines_args, fetched>>

\* DataFrame(rows).sort_values("% 24h").reset_index(drop=True) and the store
\* into session state; sort_values raises KeyError when the column is missing
StoreResult ==
    /\ pc = "loop"
    /\ i > Len(symbol_list)
    /\ LET df == DataFrame(rows)
       IN IF "% 24h" \notin df.columns
          THEN /\ err' = "KeyError"
               /\ pc' = "error"
               /\ UNCHANGED filtered_df
          ELSE /\ \E sorted \in SortValues(df) :
                     filtered_df' = Some(ResetIndex(sorted))
               /\ pc' = "guard"
               /\ err' = err
    /\ UNCHANGED <<now, meta_cache, ticker_cache, symbols_cache, symbols_at, candle_cache,
                   refresh, auto_refresh, max_symbols, symbol_list, tick_map, rows, i,
                   dfk, calls, df_before, net_failed, klines_args, lookups, fetched>>

\* if "filtered_df" not in st.session_state: st.stop()
StopGuard ==
    /\ pc = "guard"
    /\ pc' = IF filtered_df = None THEN "stopped" ELSE "chart"
    /\ UNCHANGED <<now, meta_cache, ticker_cache, symbols_cache, symbols_at, candle_cache,
                   filtered_df, refresh, auto_refresh, max_symbols, symbol_list, tick_map,
                   rows, i, dfk, err, calls, df_before, net_failed, klines_args, lookups,
                   fetched>>

\* get_klines_cached(symbol, interval, limit); an exception leaves dfk unset
GetKlinesCached(symbol, interval, limit) ==
    LET key == CacheKey(symbol, interval)
    IN /\ klines_args' = Some([symbol |-> symbol, interval |-> interval, limit |-> limit])
       /\ IF key \in DOMAIN candle_cache
          THEN /\ dfk' = Some(candle_cache[key])
               /\ UNCHANGED <<candle_cache, calls, fetched>>
          ELSE /\ calls' = Called("klines")
               /\ \E reply \in KlineReplies(symbol, interval, limit) :
                     IF Raises(reply)
                     THEN /\ dfk' = None
                          /\ UNCHANGED <<candle_cache, fetched>>
                     ELSE LET df == ParseKlines(reply.body)
                              pair == <<symbol, interval>>
                          IN /\ candle_cache' =
                                    [k \in DOMAIN candle_cache \cup {key} |->
                                        IF k = key THEN df ELSE candle_cache[k]]
                             /\ dfk' = Some(df)
                             /\ fetched' =
                                    IF pair \in DOMAIN fetched THEN fetched
                                    ELSE [q \in DOMAIN fetched \cup {pair} |->
                                            IF q = pair THEN df ELSE fetched[q]]

\* the selectbox, the radio and the chart block with its try/except
Chart ==
    /\ pc = "chart"
    /\ pc' = "done"
    /\ LET options == [k \in 1..Len(filtered_df[1].data) |-> filtered_df[1].data[k].row.symbol]
       IN IF options = <<>>
          THEN UNCHANGED <<candle_cache, dfk, calls, klines_args, fetched>>
          ELSE \E k \in 1..Len(options), label \in ChartLabels :
                  GetKlinesCached(options[k], INTERVAL_MAP[label], DefaultLimit)
    /\ UNCHANGED <<now, meta_cache, ticker_cache, symbols_cache, symbols_at, filtered_df,
                   refresh, auto_refresh, max_symbols, symbol_list, tick_map, rows, i,
                   err, df_before, net_failed, lookups>>

\* the script has ended (normally, by st.stop() or by an uncaught exception);
\* its local names are gone
EndRun ==
    /\ pc \in {"done", "stopped", "error"}
    /\ pc' = "idle"
    /\ ClearLocals
    /\ UNCHANGED <<now, meta_cache, ticker_cache, symbols_cache, symbols_at, candle_cache,
                   filtered_df, fetched>>

\* time passes between two runs of the script
Tick ==
    /\ pc = "idle"
    /\ now + TimeStep <= MaxTime
    /\ now' = now + TimeStep
    /\ UNCHANGED <<meta_cache, ticker_cache, symbols_cache, symbols_at, candle_cache,
                   filtered_df, pc, fetched>>
    /\ UNCHANGED locals

\* a direct call of get_klines_cached by any caller, between two runs
CallGetKlinesCached(symbol, interval, limit) ==
    /\ pc = "idle"
    /\ pc' = "done"
    /\ GetKlinesCached(symbol, interval, limit)
    /\ UNCHANGED <<now, meta_cache, ticker_cache, symbols_cache, symbols_at, filtered_df,
                   refresh, auto_refresh, max_symbols, symbol_list, tick_map, rows, i,
                   err, df_before, net_failed, lookups>>

Next ==
    \/ \E r \in BOOLEAN, a \in BOOLEAN, n \in MinSymbols..MaxN : BeginRun(r, a, n)
    \/ LoadSymbols
    \/ LoadTickers
    \/ FilterStep
    \/ StoreResult
    \/ StopGuard
    \/ Chart
    \/ EndRun
    \/ Tick

Spec == Init /\ [][Next]_vars

\* the script, and get_klines_cached called with any limit
NextApi ==
    \/ Next
    \/ \E symbol \in ChartSymbols, label \in ChartLabels, limit \in Limits :
            CallGetKlinesCached(symbol, INTERVAL_MAP[label], limit)

SpecApi == Init /\ [][NextApi]_vars

----------------------------------------------------------------------------
(* Properties *)

StoredRows == IF filtered_df = None THEN <<>> ELSE filtered_df[1].data
StoredSymbols == {StoredRows[k].row.symbol : k \in 1..Len(StoredRows)}

\* the rerun is a refresh cycle
Reloading == pc # "idle" /\ (refresh \/ auto_refresh)
\* ... whose loop has ended
LoopOver == Reloading /\ pc \in {"guard", "chart", "done", "error"} /\ net_failed = "none"
\* ... and which stored its result
CycleStored == Reloading /\ pc \in {"guard", "chart", "done"}

\* the percent change the ticker snapshot of this cycle holds for a symbol
TickerPct(sym) ==
    LET w == tick_map[sym].priceChangePercent
    IN IF w.neg THEN 0 - w.mag ELSE w.mag

\* C1: every row of the stored Filtered Result has a 24h percent change
\* strictly below zero, and no symbol whose ticker percent change is zero or
\* positive is in the result a cycle stored.
C1_NegativeOnly ==
    /\ \A k \in 1..Len(StoredRows) : StoredRows[k].row.pct24h < 0
    /\ CycleStored =>
          \A sym \in StoredSymbols : sym \in DOMAIN tick_map /\ TickerPct(sym) < 0

C1_Witness ==
    /\ CycleStored
    /\ StoredRows # <<>>
    /\ \E k \in 1..Len(symbol_list) :
          /\ symbol_list[k] \in DOMAIN tick_map
          /\ TickerPct(symbol_list[k]) >= 0
          /\ symbol_list[k] \notin StoredSymbols

\* the symbols the claim expects in the result of the cycle
Expected ==
    {symbols_cache[1][k].symbol : k \in 1..Min(max_symbols, Len(symbols_cache[1]))}
      \cap {sym \in DOMAIN tick_map : TickerPct(sym) < 0}

\* C2: once the loop of a cycle has ended, the cycle has not failed and the
\* stored result holds exactly the symbols among the first N metadata entries
\* that have a ticker with percent change below zero, each once.
C2_ExactlyQualifying ==
    LoopOver =>
      /\ pc # "error"
      /\ StoredSymbols = Expected
      /\ Len(StoredRows) = Cardinality(Expected)

\* the part of C2 that the code keeps: a cycle that stored a result stored
\* exactly the expected symbols, each once
C2_WhenStored ==
    CycleStored => (StoredSymbols = Expected /\ Len(StoredRows) = Cardinality(Expected))

\* C3: adjacent rows of the stored Filtered Result are in ascending order of
\* percent change.
C3_Sorted ==
    \A k \in 1..(Len(StoredRows) - 1) :
        StoredRows[k].row.pct24h <= StoredRows[k + 1].row.pct24h

\* the metadata lists the two stored symbols in the opposite order
C3_Witness ==
    /\ CycleStored
    /\ Len(StoredRows) = 2
    /\ StoredRows[1].row.pct24h < StoredRows[2].row.pct24h
    /\ \E a, b \in 1..Len(symbol_list) :
          /\ a < b
          /\ symbol_list[a] = StoredRows[2].row.symbol
          /\ symbol_list[b] = StoredRows[1].row.symbol

\* C4: the candidates of a cycle are exactly the first N metadata entries in
\* metadata order (all when there are fewer), only candidates are looked up,
\* and the stored result has at most N rows, all of them candidates.
C4_FirstN ==
    (Reloading /\ pc \in {"tickers", "loop", "guard", "chart", "done"}) =>
      LET meta == symbols_cache[1]
          n == IF max_symbols < Len(meta) THEN max_symbols ELSE Len(meta)
      IN /\ Len(symbol_list) = n
         /\ \A k \in 1..n : symbol_list[k] = meta[k].symbol
         /\ \A k \in 1..Len(lookups) :
                \E j \in 1..n : j <= max_symbols /\ lookups[k].symbol = meta[j].symbol
         /\ CycleStored =>
               /\ Len(StoredRows) <= max_symbols
               /\ \A sym \in StoredSymbols :
                     \E j \in 1..n : j <= max_symbols /\ sym = meta[j].symbol

\* a cycle over metadata longer than N stored a result
C4_Witness ==
    /\ CycleStored
    /\ Len(symbols_cache[1]) > max_symbols
    /\ Len(StoredRows) = max_symbols

\* the date of the first candle the exchange answers with, day/month/year
FirstCandleDate == "08/09/2019"

\* C5: a failed first-candle lookup neither ends the cycle nor drops or
\* changes a row: every looked-up symbol gets its row at once, with "N/A"
\* when its lookup failed and the formatted date when it was answered, and
\* the stored result holds exactly these rows.
C5_LookupIsolation ==
    /\ lookups # <<>> => pc # "error"
    /\ Len(rows) = Len(lookups)
    /\ \A k \in 1..Len(lookups) :
          /\ rows[k].symbol = lookups[k].symbol
          /\ rows[k].pct24h = TickerPct(lookups[k].symbol)
          /\ rows[k].listed_date = IF lookups[k].answered THEN FirstCandleDate ELSE "N/A"
    /\ CycleStored =>
          /\ Len(StoredRows) = Len(rows)
          /\ \A k \in 1..Len(rows) : \E j \in 1..Len(StoredRows) : StoredRows[j].row = rows[k]

\* one lookup failed, another was answered, and the result is stored
C5_Witness ==
    /\ CycleStored
    /\ \E x, y \in 1..Len(lookups) :
          /\ ~lookups[x].answered
          /\ lookups[y].answered
          /\ \E a, b \in 1..Len(StoredRows) :
                /\ StoredRows[a].row.symbol = lookups[x].symbol
                /\ StoredRows[a].row.listed_date = "N/A"
                /\ StoredRows[b].row.symbol = lookups[y].symbol
                /\ StoredRows[b].row.listed_date = FirstCandleDate

\* C6: after a failed metadata or ticker fetch the rerun has ended with that
\* error, no first-candle lookup was issued, and the stored Filtered Result
\* is the one the rerun started with.
C6_BulkFailureAborts ==
    net_failed # "none" =>
      /\ pc = "error"
      /\ err \in {"RequestException", "HTTPError"}
      /\ lookups = <<>>
      /\ calls.listing = 0
      /\ rows = <<>>
      /\ filtered_df = df_before

\* the ticker fetch failed while an earlier result was stored
C6_Witness ==
    /\ net_failed = "ticker"
    /\ pc = "error"
    /\ df_before # None
    /\ filtered_df = df_before

\* what C7 asks of one step
C7_Step ==
    /\ \A k \in DOMAIN candle_cache :
          k \in DOMAIN candle_cache' /\ candle_cache'[k] = candle_cache[k]
    /\ (klines_args = None /\ klines_args' # None) =>
          LET pair == <<klines_args'[1].symbol, klines_args'[1].interval>>
          IN /\ pair \in DOMAIN fetched =>
                   /\ dfk' = Some(fetched[pair])
                   /\ calls'.klines = calls.klines
             /\ dfk' # None =>
                   /\ pair \in DOMAIN fetched'
                   /\ dfk' = Some(fetched'[pair])

\* C7: a stored candle series is never changed or removed; a call of
\* get_klines_cached for a (symbol, interval) that was fetched before returns
\* the series of that first fetch without a request, whatever its limit; and
\* whatever a call returns is the series first fetched for its own
\* (symbol, interval).
C7_CacheIdempotent == [][C7_Step]_vars

\* a call with limit 1 was served, without a request, the two candles that
\* an earlier call with the default limit had fetched
C7_Witness ==
    /\ klines_args # None
    /\ klines_args[1].limit = 1
    /\ dfk # None
    /\ Len(dfk[1]) = 2
    /\ calls.klines = 0
    /\ filtered_df # None

\* C8: the metadata a refresh cycle takes its candidates from was fetched
\* less than the time-to-live ago.
C8_FreshMetadata ==
    (Reloading /\ pc \in {"tickers", "loop", "guard", "chart", "done"}) =>
        now - symbols_at < MetaTtl

\* the part of C8 that the code keeps: a cycle started by the refresh button
\* never takes its candidates from metadata older than the time-to-live
C8_WhenButtonPressed ==
    (Reloading /\ refresh /\ pc \in {"tickers", "loop", "guard", "chart", "done"}) =>
        now - symbols_at < MetaTtl

\* C9: once the loop of a cycle whose two bulk fetches succeeded has ended,
\* the cycle has not failed and the stored Filtered Result is made of exactly
\* the rows the cycle built, also when it built none.
C9_AlwaysReplaces ==
    LoopOver =>
      /\ pc # "error"
      /\ filtered_df # None
      /\ Len(StoredRows) = Len(rows)
      /\ \A k \in 1..Len(rows) : \E j \in 1..Len(StoredRows) : StoredRows[j].row = rows[k]

\* what C10 asks of one step
C10_Step ==
    /\ (pc' # "idle" /\ ~refresh' /\ ~auto_refresh') =>
          /\ filtered_df' = filtered_df
          /\ symbols_cache' = symbols_cache
          /\ meta_cache' = meta_cache
          /\ ticker_cache' = ticker_cache
          /\ calls'.meta = 0 /\ calls'.ticker = 0 /\ calls'.listing = 0
          /\ lookups' = <<>>
          /\ filtered_df = None => (calls'.klines = 0 /\ pc' \in {"guard", "stopped"})
    /\ filtered_df' # filtered_df =>
          /\ pc = "loop" /\ pc' = "guard"
          /\ refresh \/ auto_refresh

\* C10: a rerun without the refresh button and without auto-refresh leaves
\* the Filtered Result, the metadata session cache and both bulk caches as
\* they are and issues no metadata, ticker or first-candle request; with no
\* stored result it stops before the chart without a candle request.  The
\* Filtered Result changes only in the step that ends the loop of a refresh
\* cycle.
C10_NoReloadFrame == [][C10_Step]_vars

\* a rerun without reload went on to draw the chart of a stored result
C10_Witness ==
    /\ pc = "done"
    /\ ~refresh /\ ~auto_refresh
    /\ filtered_df # None
    /\ klines_args # None
    /\ max_symbols < Len(StoredRows)

====
